---- MODULE Spec2Model ----
(***************************************************************************)
(* Chirag Battery API: the product catalogue and inquiry endpoints of      *)
(* main.py, the request schemas of schemas.py and the startup seed step,   *)
(* over a document store with two collections, "product" and "inquiry".    *)
(***************************************************************************)
EXTENDS Integers, Sequences, FiniteSets, TLC

VARIABLES
  db,         \* the store handle of database.py: "None" or "connected"
  reachable,  \* whether the store behind the handle answers
  product,    \* the "product" collection, in natural (insertion) order
  inquiry,    \* the "inquiry" collection
  last,       \* the latest request and its response
  nreq,       \* requests handled so far
  posted,     \* the products stored through POST /api/products
  pc,         \* per process, the position in seed_products
  idx,        \* per process, the index of the next sample to insert
  seen,       \* per process, the count read by the current seed run (-1: none)
  added,      \* per process, the inserts made by the current seed run
  raised,     \* per process, whether the current seed run swallowed an exception
  runs        \* per process, the startups so far

vars == <<db, reachable, product, inquiry, last, nreq, posted,
          pc, idx, seen, added, raised, runs>>

seedVars == <<pc, idx, seen, added, raised, runs>>

\* ---------------------------------------------------------------- bounds
MaxRequests == 2
MaxStartups == 2
Procs == {1, 2}

\* -------------------------------------------------- optional values, text
\* Optional[T]: None is the empty tuple, a present value v is <<v>>.
None == <<>>
Some(x) == <<x>>
IsSome(o) == o # <<>>
Val(o) == o[1]

\* Python truthiness of an Optional[str] query parameter (`if brand:`).
Truthy(o) == IsSome(o) /\ Val(o) # ""

Range(s) == {s[i] : i \in 1..Len(s)}

Min(a, b) == IF a < b THEN a ELSE b

Abs(n) == IF n < 0 THEN 0 - n ELSE n

Take(s, n) == SubSeq(s, 1, Min(n, Len(s)))

\* The characters of the texts that occur as product names and as q.
Chars(s) ==
  CASE s = "Amaron Pro Rider" -> <<"A", "m", "a", "r", "o", "n", " ", "P", "r", "o", " ", "R", "i", "d", "e", "r">>
       [] s = "Exide Xplore" -> <<"E", "x", "i", "d", "e", " ", "X", "p", "l", "o", "r", "e">>
       [] s = "Amaron Flo 55B24L" -> <<"A", "m", "a", "r", "o", "n", " ", "F", "l", "o", " ", "5", "5", "B", "2", "4", "L">>
       [] s = "Exide Mileage 35L" -> <<"E", "x", "i", "d", "e", " ", "M", "i", "l", "e", "a", "g", "e", " ", "3", "5", "L">>
       [] s = "Luminous Zelio+ 1100" -> <<"L", "u", "m", "i", "n", "o", "u", "s", " ", "Z", "e", "l", "i", "o", "+", " ", "1", "1", "0", "0">>
       [] s = "Luminous RC 18000" -> <<"L", "u", "m", "i", "n", "o", "u", "s", " ", "R", "C", " ", "1", "8", "0", "0", "0">>
       [] s = "Amaron Z4" -> <<"A", "m", "a", "r", "o", "n", " ", "Z", "4">>
       [] s = "" -> <<>>
       [] s = "RIDER" -> <<"R", "I", "D", "E", "R">>
       [] s = "xid" -> <<"x", "i", "d">>

UpperCase == <<"A", "B", "C", "D", "E", "F", "G", "H", "I", "J", "K", "L", "M", "N", "O", "P", "Q", "R", "S", "T", "U", "V", "W", "X", "Y", "Z">>
LowerCase == <<"a", "b", "c", "d", "e", "f", "g", "h", "i", "j", "k", "l", "m", "n", "o", "p", "q", "r", "s", "t", "u", "v", "w", "x", "y", "z">>

Lower(c) ==
  IF \E i \in 1..Len(UpperCase) : UpperCase[i] = c
  THEN LowerCase[CHOOSE i \in 1..Len(UpperCase) : UpperCase[i] = c]
  ELSE c

Texts ==
  {"Amaron Pro Rider", "Exide Xplore", "Amaron Flo 55B24L", "Exide Mileage 35L",
   "Luminous Zelio+ 1100", "Luminous RC 18000", "Amaron Z4", "", "RIDER", "xid"}

\* Each text in lower case, character by character.
LowerChars == [s \in Texts |-> [i \in 1..Len(Chars(s)) |-> Lower(Chars(s)[i])]]

\* {"$regex": q, "$options": "i"} for a literal q: q occurs in text,
\* letter case ignored.
RegexI(q, text) ==
  LET qs == LowerChars[q]
      ts == LowerChars[text]
  IN \E off \in 0..(Len(ts) - Len(qs)) :
       \A j \in 1..Len(qs) : ts[off + j] = qs[j]

\* ----------------------------------------------------------- schemas.py
BrandLiteral == {"Amaron", "Exide", "Luminous"}
TypeLiteral == {"bike-battery", "car-battery", "inverter", "inverter-battery"}
ContactLiteral == {"call", "whatsapp"}
DefaultContact == "whatsapp"
DefaultCity == "Veraval, Gir Somnath"

\* A request body gives every field as an Optional: None when the key is
\* missing from the JSON object.
ValidProductNoEnum(b) ==
  /\ IsSome(b.name)
  /\ IsSome(b.brand)
  /\ IsSome(b.type) /\ Val(b.type) \in TypeLiteral
  /\ IsSome(b.capacity_ah) => Val(b.capacity_ah) >= 0
  /\ IsSome(b.warranty_months) => Val(b.warranty_months) >= 0
  /\ IsSome(b.price) => Val(b.price) >= 0

ValidProduct(b) ==
  /\ IsSome(b.name)
  /\ IsSome(b.brand) /\ Val(b.brand) \in BrandLiteral
  /\ IsSome(b.type) /\ Val(b.type) \in TypeLiteral
  /\ IsSome(b.capacity_ah) => Val(b.capacity_ah) >= 0
  /\ IsSome(b.warranty_months) => Val(b.warranty_months) >= 0
  /\ IsSome(b.price) => Val(b.price) >= 0

\* The validated Product as the mapping model_dump() gives.
ParseProduct(b) ==
  [name |-> Val(b.name), brand |-> Val(b.brand), type |-> Val(b.type),
   capacity_ah |-> b.capacity_ah, warranty_months |-> b.warranty_months,
   price |-> b.price, description |-> b.description,
   in_stock |-> IF IsSome(b.in_stock) THEN Val(b.in_stock) ELSE TRUE]

ValidInquiry(b) ==
  /\ IsSome(b.name)
  /\ IsSome(b.phone)
  /\ IsSome(b.preferred_contact) => Val(b.preferred_contact) \in ContactLiteral

ParseInquiryCall(b) ==
  [name |-> Val(b.name), phone |-> Val(b.phone), message |-> b.message,
   product_type |-> b.product_type, brand |-> b.brand,
   preferred_contact |-> IF IsSome(b.preferred_contact)
                         THEN Val(b.preferred_contact) ELSE "call",
   city |-> IF IsSome(b.city) THEN b.city ELSE Some(DefaultCity)]

ParseInquiry(b) ==
  [name |-> Val(b.name), phone |-> Val(b.phone), message |-> b.message,
   product_type |-> b.product_type, brand |-> b.brand,
   preferred_contact |-> IF IsSome(b.preferred_contact)
                         THEN Val(b.preferred_contact) ELSE DefaultContact,
   city |-> IF IsSome(b.city) THEN b.city ELSE Some(DefaultCity)]

\* ------------------------------------------------- persistence adapter
\* A stored document is the inserted mapping plus the store's "_id".
WithId(rec, id) == [k \in DOMAIN rec \cup {"_id"} |-> IF k = "_id" THEN id ELSE rec[k]]

\* it.pop("_id", None)
PopId(doc) == [k \in DOMAIN doc \ {"_id"} |-> doc[k]]

StripAll(docs) == [i \in 1..Len(docs) |-> PopId(docs[i])]

\* insert(collection, record): the collection after the insert.
create_document(coll, rec) == Append(coll, WithId(rec, Len(coll) + 1))

\* One document against a filter mapping: equality on a field, or a
\* case-insensitive pattern on "name".
Matches(doc, filters) ==
  \A k \in DOMAIN filters :
    IF k = "name" THEN RegexI(filters[k], doc.name) ELSE doc[k] = filters[k]

Matching(coll, filters) == SelectSeq(coll, LAMBDA doc : Matches(doc, filters))

\* query(collection, filter, limit): the results the store may give, the
\* matching records in natural order cut at limit.  A limit of zero or less
\* is handed to the store as it is; what the store makes of it (nothing,
\* its magnitude, no limit at all) is not fixed.
get_documents(coll, filters, limit) ==
  LET m == Matching(coll, filters)
  IN IF limit >= 1 THEN {Take(m, limit)}
     ELSE {Take(m, 0), Take(m, Abs(limit)), m}

\* -------------------------------------------------------------- main.py
DefaultLimit == 50

samples ==
  << [name |-> "Amaron Pro Rider", brand |-> "Amaron", type |-> "bike-battery",
      capacity_ah |-> Some(9), warranty_months |-> Some(48), price |-> Some(1699),
      description |-> Some("Maintenance-free bike battery"), in_stock |-> TRUE],
     [name |-> "Exide Xplore", brand |-> "Exide", type |-> "bike-battery",
      capacity_ah |-> Some(9), warranty_months |-> Some(48), price |-> Some(1599),
      description |-> Some("Reliable performance for bikes"), in_stock |-> TRUE],
     [name |-> "Amaron Flo 55B24L", brand |-> "Amaron", type |-> "car-battery",
      capacity_ah |-> Some(45), warranty_months |-> Some(48), price |-> Some(5499),
      description |-> Some("High cranking power"), in_stock |-> TRUE],
     [name |-> "Exide Mileage 35L", brand |-> "Exide", type |-> "car-battery",
      capacity_ah |-> Some(35), warranty_months |-> Some(44), price |-> Some(4899),
      description |-> Some("Long life, low maintenance"), in_stock |-> TRUE],
     [name |-> "Luminous Zelio+ 1100", brand |-> "Luminous", type |-> "inverter",
      capacity_ah |-> None, warranty_months |-> Some(24), price |-> Some(6999),
      description |-> Some("Pure sine wave inverter"), in_stock |-> TRUE],
     [name |-> "Luminous RC 18000", brand |-> "Luminous", type |-> "inverter-battery",
      capacity_ah |-> Some(150), warranty_months |-> Some(36), price |-> Some(13499),
      description |-> Some("Tubular inverter battery"), in_stock |-> TRUE] >>

\* The filter mapping list_products builds from its query parameters.
BrandFilter(brand) == IF Truthy(brand) THEN [k \in {"brand"} |-> Val(brand)] ELSE <<>>

TypeFilter(type) == IF Truthy(type) THEN [k \in {"type"} |-> Val(type)] ELSE <<>>

NameFilter(q) == IF Truthy(q) THEN [k \in {"name"} |-> Val(q)] ELSE <<>>

FiltersSwapped(brand, type, q) ==
  (IF Truthy(brand) THEN [k \in {"type"} |-> Val(brand)] ELSE <<>>)
    @@ (IF Truthy(type) THEN [k \in {"brand"} |-> Val(type)] ELSE <<>>)
    @@ NameFilter(q)

FiltersNoBrand(brand, type, q) == TypeFilter(type) @@ NameFilter(q)

Filters(brand, type, q) == BrandFilter(brand) @@ TypeFilter(type) @@ NameFilter(q)

Response(op, req, status, touched, items, id) ==
  [op |-> op, req |-> req, status |-> status, touched |-> touched,
   items |-> items, total |-> Len(items), id |-> id]

NoResponse == Response("none", <<>>, 0, FALSE, <<>>, 0)

\* GET /api/products
ListProductsNoLimit(brand, type, q, limit) ==
  LET req == [brand |-> brand, type |-> type, q |-> q, limit |-> limit]
  IN /\ nreq < MaxRequests
     /\ IF db = "None"
        THEN last' = Response("list_products", req, 500, FALSE, <<>>, 0)
        ELSE IF ~reachable
        THEN last' = Response("list_products", req, 500, TRUE, <<>>, 0)
        ELSE \E items \in get_documents(product, Filters(brand, type, q), DefaultLimit) :
               last' = Response("list_products", req, 200, TRUE, StripAll(items), 0)
     /\ nreq' = nreq + 1
     /\ UNCHANGED <<db, reachable, product, inquiry, posted, seedVars>>

ListProducts(brand, type, q, limit) ==
  LET req == [brand |-> brand, type |-> type, q |-> q, limit |-> limit]
  IN /\ nreq < MaxRequests
     /\ IF db = "None"
        THEN last' = Response("list_products", req, 500, FALSE, <<>>, 0)
        ELSE IF ~reachable
        THEN last' = Response("list_products", req, 500, TRUE, <<>>, 0)
        ELSE \E items \in get_documents(product, Filters(brand, type, q), limit) :
               last' = Response("list_products", req, 200, TRUE, StripAll(items), 0)
     /\ nreq' = nreq + 1
     /\ UNCHANGED <<db, reachable, product, inquiry, posted, seedVars>>

\* POST /api/products: the body is validated against the Product schema
\* before the handler runs.
AddProduct(body) ==
  /\ nreq < MaxRequests
  /\ nreq' = nreq + 1
  /\ IF ~ValidProduct(body)
     THEN /\ last' = Response("add_product", body, 422, FALSE, <<>>, 0)
          /\ UNCHANGED <<product, posted>>
     ELSE IF db = "None"
     THEN /\ last' = Response("add_product", body, 500, FALSE, <<>>, 0)
          /\ UNCHANGED <<product, posted>>
     ELSE IF ~reachable
     THEN /\ last' = Response("add_product", body, 500, TRUE, <<>>, 0)
          /\ UNCHANGED <<product, posted>>
     ELSE /\ product' = create_document(product, ParseProduct(body))
          /\ posted' = posted \cup {ParseProduct(body)}
          /\ last' = Response("add_product", body, 201, TRUE, <<>>, Len(product) + 1)
  /\ UNCHANGED <<db, reachable, inquiry, seedVars>>

\* POST /api/inquiries
CreateInquiryNoCheck(body) ==
  /\ nreq < MaxRequests
  /\ nreq' = nreq + 1
  /\ IF ~ValidInquiry(body)
     THEN /\ last' = Response("create_inquiry", body, 422, FALSE, <<>>, 0)
          /\ UNCHANGED inquiry
     ELSE IF db # "None" /\ ~reachable
     THEN /\ last' = Response("create_inquiry", body, 500, TRUE, <<>>, 0)
          /\ UNCHANGED inquiry
     ELSE /\ inquiry' = create_document(inquiry, ParseInquiry(body))
          /\ last' = Response("create_inquiry", body, 201, TRUE, <<>>, Len(inquiry) + 1)
  /\ UNCHANGED <<db, reachable, product, posted, seedVars>>

CreateInquiry(body) ==
  /\ nreq < MaxRequests
  /\ nreq' = nreq + 1
  /\ IF ~ValidInquiry(body)
     THEN /\ last' = Response("create_inquiry", body, 422, FALSE, <<>>, 0)
          /\ UNCHANGED inquiry
     ELSE IF db = "None"
     THEN /\ last' = Response("create_inquiry", body, 500, FALSE, <<>>, 0)
          /\ UNCHANGED inquiry
     ELSE IF ~reachable
     THEN /\ last' = Response("create_inquiry", body, 500, TRUE, <<>>, 0)
          /\ UNCHANGED inquiry
     ELSE /\ inquiry' = create_document(inquiry, ParseInquiry(body))
          /\ last' = Response("create_inquiry", body, 201, TRUE, <<>>, Len(inquiry) + 1)
  /\ UNCHANGED <<db, reachable, product, posted, seedVars>>

\* The store behind a live handle stops answering, or answers again.
StoreOutage ==
  /\ db = "connected" /\ reachable
  /\ reachable' = FALSE
  /\ UNCHANGED <<db, product, inquiry, last, nreq, posted, seedVars>>

StoreRecover ==
  /\ db = "connected" /\ ~reachable
  /\ reachable' = TRUE
  /\ UNCHANGED <<db, product, inquiry, last, nreq, posted, seedVars>>

\* ------------------------------------------------- startup: seed_products
\* @app.on_event("startup"): the process enters seed_products and tests the
\* handle.
Startup(p) ==
  /\ pc[p] \in {"idle", "done"}
  /\ runs[p] < MaxStartups
  /\ runs' = [runs EXCEPT ![p] = @ + 1]
  /\ pc' = [pc EXCEPT ![p] = IF db = "None" THEN "done" ELSE "count"]
  /\ idx' = [idx EXCEPT ![p] = 0]
  /\ seen' = [seen EXCEPT ![p] = -1]
  /\ added' = [added EXCEPT ![p] = 0]
  /\ raised' = [raised EXCEPT ![p] = FALSE]
  /\ UNCHANGED <<db, reachable, product, inquiry, last, nreq, posted>>

\* count = db["product"].count_documents({}); if count == 0: ...
SeedCountAlways(p) ==
  /\ pc[p] = "count"
  /\ IF ~reachable
     THEN /\ raised' = [raised EXCEPT ![p] = TRUE]
          /\ pc' = [pc EXCEPT ![p] = "done"]
          /\ UNCHANGED <<seen, idx>>
     ELSE /\ seen' = [seen EXCEPT ![p] = Len(product)]
          /\ pc' = [pc EXCEPT ![p] = "insert"]
          /\ idx' = [idx EXCEPT ![p] = 1]
          /\ UNCHANGED raised
  /\ UNCHANGED <<db, reachable, product, inquiry, last, nreq, posted, added, runs>>

SeedCount(p) ==
  /\ pc[p] = "count"
  /\ IF ~reachable
     THEN /\ raised' = [raised EXCEPT ![p] = TRUE]
          /\ pc' = [pc EXCEPT ![p] = "done"]
          /\ UNCHANGED <<seen, idx>>
     ELSE /\ seen' = [seen EXCEPT ![p] = Len(product)]
          /\ pc' = [pc EXCEPT ![p] = IF Len(product) = 0 THEN "insert" ELSE "done"]
          /\ idx' = [idx EXCEPT ![p] = IF Len(product) = 0 THEN 1 ELSE 0]
          /\ UNCHANGED raised
  /\ UNCHANGED <<db, reachable, product, inquiry, last, nreq, posted, added, runs>>

\* for s in samples: create_document("product", s); an exception leaves the
\* loop and is swallowed.
SeedInsert(p) ==
  /\ pc[p] = "insert"
  /\ IF ~reachable
     THEN /\ raised' = [raised EXCEPT ![p] = TRUE]
          /\ pc' = [pc EXCEPT ![p] = "done"]
          /\ UNCHANGED <<product, idx, added>>
     ELSE /\ product' = create_document(product, samples[idx[p]])
          /\ added' = [added EXCEPT ![p] = @ + 1]
          /\ idx' = [idx EXCEPT ![p] = @ + 1]
          /\ pc' = [pc EXCEPT ![p] = IF idx[p] = Len(samples) THEN "done" ELSE "insert"]
          /\ UNCHANGED raised
  /\ UNCHANGED <<db, reachable, inquiry, last, nreq, posted, seen, runs>>

\* ------------------------------------------------------- request inputs
Body(name, brand, type, cap, war, price) ==
  [name |-> name, brand |-> brand, type |-> type, capacity_ah |-> cap,
   warranty_months |-> war, price |-> price, description |-> None,
   in_stock |-> None]

ProductBodies ==
  { Body(Some("Amaron Z4"), Some("Amaron"), Some("bike-battery"), Some(5), Some(24), Some(999)),
    Body(Some(""), Some("Exide"), Some("car-battery"), None, None, None),
    Body(Some("Amaron Z4"), Some("Duracell"), Some("bike-battery"), None, None, None),
    Body(Some("Amaron Z4"), Some("Amaron"), Some("solar"), None, None, None),
    Body(Some("Amaron Z4"), Some("Amaron"), Some("bike-battery"), Some(-1), None, None),
    Body(Some("Amaron Z4"), Some("Amaron"), Some("bike-battery"), None, Some(-1), None),
    Body(Some("Amaron Z4"), Some("Amaron"), Some("bike-battery"), None, None, Some(-1)),
    Body(None, Some("Amaron"), Some("bike-battery"), None, None, None) }

InquiryBody(name, phone, contact, city) ==
  [name |-> name, phone |-> phone, message |-> None, product_type |-> None,
   brand |-> None, preferred_contact |-> contact, city |-> city]

InquiryBodies ==
  { InquiryBody(Some("Asha"), Some("98250"), None, None),
    InquiryBody(Some("Asha"), Some("98250"), Some("call"), Some("Una")),
    InquiryBody(Some("Asha"), Some("98250"), Some("email"), None),
    InquiryBody(Some("Asha"), None, None, None) }

BrandParams == {None, Some(""), Some("Amaron"), Some("Duracell")}
TypeParams == {None, Some("bike-battery"), Some("solar")}
QParams == {None, Some("RIDER")}
LimitParams == {-1, 0, 2, DefaultLimit}

\* The product collection a starting process may find: empty, seeded, or
\* filled by earlier POSTs of one product.
Preload(n) == [i \in 1..n |-> WithId(samples[1], i)]

Seeded == [i \in 1..Len(samples) |-> WithId(samples[i], i)]

InitialProducts == {<<>>, Seeded, Preload(DefaultLimit - 1), Preload(DefaultLimit)}

\* ------------------------------------------------------- specifications
InitStore ==
  /\ db \in {"None", "connected"}
  /\ reachable = (db = "connected")
  /\ inquiry = <<>>
  /\ last = NoResponse
  /\ nreq = 0
  /\ posted = {}
  /\ idx = [p \in Procs |-> 0]
  /\ seen = [p \in Procs |-> -1]
  /\ added = [p \in Procs |-> 0]
  /\ raised = [p \in Procs |-> FALSE]
  /\ runs = [p \in Procs |-> 0]

\* The service after startup, taking requests.
Init ==
  /\ InitStore
  /\ product \in InitialProducts
  /\ pc = [p \in Procs |-> "done"]

Next ==
  \/ \E brand \in BrandParams, type \in TypeParams, q \in QParams, limit \in LimitParams :
       ListProducts(brand, type, q, limit)
  \/ \E body \in ProductBodies : AddProduct(body)
  \/ \E body \in InquiryBodies : CreateInquiry(body)
  \/ StoreOutage
  \/ StoreRecover

Spec == Init /\ [][Next]_vars

\* Processes starting up against one store.
InitSeed ==
  /\ InitStore
  /\ product \in {<<>>, Preload(1), Seeded}
  /\ pc = [p \in Procs |-> "idle"]

NextSeed ==
  \/ \E p \in Procs : Startup(p)
  \/ \E p \in Procs : SeedCount(p)
  \/ \E p \in Procs : SeedInsert(p)
  \/ StoreOutage
  \/ StoreRecover

SpecSeed == InitSeed /\ [][NextSeed]_vars

TypeOK ==
  /\ db \in {"None", "connected"}
  /\ reachable \in BOOLEAN
  /\ nreq \in 0..MaxRequests
  /\ \A p \in Procs : pc[p] \in {"idle", "count", "insert", "done"}

\* ------------------------------------------------------------ properties
IsList(r) == r.op = "list_products" /\ r.status = 200

MatchCount(brand, type) ==
  Cardinality({i \in 1..Len(product) : product[i].brand = brand /\ product[i].type = type})

\* C1 (amended): a default-limit listing without q, filtered on the brand
\* and type of a product created through POST /api/products, contains that
\* product whenever the stored products of that brand and type number at
\* most the limit.
C1_CreatedIsListedWithinLimit ==
  (IsList(last) /\ last.req.q = None /\ last.req.limit = DefaultLimit)
    => \A P \in posted :
         (/\ last.req.brand = Some(P.brand)
          /\ last.req.type = Some(P.type)
          /\ MatchCount(P.brand, P.type) <= DefaultLimit)
           => P \in Range(last.items)

C1_Witness ==
  /\ IsList(last) /\ last.req.q = None /\ last.req.limit = DefaultLimit
  /\ Len(product) = DefaultLimit
  /\ \E P \in posted :
       /\ last.req.brand = Some(P.brand)
       /\ last.req.type = Some(P.type)
       /\ MatchCount(P.brand, P.type) = DefaultLimit
       /\ P \in Range(last.items)

\* C1 as stated: the listing contains the created product in every store
\* state.
C1_CreatedIsListed ==
  (IsList(last) /\ last.req.q = None /\ last.req.limit = DefaultLimit)
    => \A P \in posted :
         (last.req.brand = Some(P.brand) /\ last.req.type = Some(P.type))
           => P \in Range(last.items)

\* C2 (amended): for every limit of at least 1 the listing returns no more
\* items than the limit.
C2_AtMostPositiveLimit ==
  (IsList(last) /\ last.req.limit >= 1) => Len(last.items) <= last.req.limit

C2_Witness ==
  /\ IsList(last) /\ last.req.limit = 2
  /\ last.req.brand = None /\ last.req.type = None /\ last.req.q = None
  /\ Len(product) > 2
  /\ Len(last.items) = 2

\* C2 as stated: for every limit the listing returns no more items than the
\* limit.
C2_AtMostLimit ==
  IsList(last) => Len(last.items) <= last.req.limit

BadProductBody(b) ==
  \/ IsSome(b.brand) /\ Val(b.brand) \notin BrandLiteral
  \/ IsSome(b.type) /\ Val(b.type) \notin TypeLiteral
  \/ IsSome(b.capacity_ah) /\ Val(b.capacity_ah) < 0
  \/ IsSome(b.warranty_months) /\ Val(b.warranty_months) < 0
  \/ IsSome(b.price) /\ Val(b.price) < 0

\* C3: a POST /api/products whose brand or type is outside its enumeration,
\* or whose capacity_ah, warranty_months or price is negative, is answered
\* 422 without any store access and leaves the collections as they were.
C3_InvalidProductRejected ==
  [][(nreq' = nreq + 1 /\ last'.op = "add_product" /\ BadProductBody(last'.req))
       => (/\ last'.status = 422
           /\ ~last'.touched
           /\ product' = product
           /\ inquiry' = inquiry)]_vars

C3_Witness ==
  /\ last.op = "add_product"
  /\ last.req.brand = Some("Duracell")
  /\ last.status = 422
  /\ db = "connected" /\ reachable

ValidRequest(r) ==
  \/ r.op = "list_products"
  \/ r.op = "add_product" /\ ValidProduct(r.req)
  \/ r.op = "create_inquiry" /\ ValidInquiry(r.req)

\* C4: with the store handle absent, a valid request to GET /api/products,
\* POST /api/products or POST /api/inquiries is answered 500 without any
\* store access and leaves both collections as they were.
C4_NoHandleGives500 ==
  [][(nreq' = nreq + 1 /\ db = "None" /\ ValidRequest(last'))
       => (/\ last'.status = 500
           /\ ~last'.touched
           /\ product' = product
           /\ inquiry' = inquiry)]_vars

C4_Witness ==
  /\ db = "None"
  /\ last.op = "create_inquiry" /\ ValidInquiry(last.req)
  /\ last.status = 500
  /\ inquiry = <<>>

\* C5: a seed run that counts at least one product inserts nothing and
\* ends, however many times startup is run.
C5_SeedNoOpWhenNonEmpty ==
  \A p \in Procs : seen[p] > 0 => (added[p] = 0 /\ pc[p] = "done")

C5_Witness ==
  \E p \in Procs :
    /\ runs[p] >= 2
    /\ seen[p] = Len(samples)
    /\ pc[p] = "done"
    /\ StripAll(product) = samples

\* C6: once a seed run that counted zero products on a connected store and
\* went on to insert has finished, the collection holds all six samples,
\* never a proper subset of them.
C6_SeedAllSix ==
  \A p \in Procs :
    (db = "connected" /\ pc[p] = "done" /\ seen[p] = 0 /\ added[p] > 0)
      => \A i \in 1..Len(samples) : samples[i] \in Range(StripAll(product))

OnlyNamePhone(b) ==
  /\ IsSome(b.name) /\ IsSome(b.phone)
  /\ b.message = None /\ b.product_type = None /\ b.brand = None
  /\ b.preferred_contact = None /\ b.city = None

\* C7: a POST /api/inquiries giving only name and phone, with the store
\* connected, is answered 201 and appends exactly one inquiry whose
\* preferred_contact is "whatsapp" and whose city is "Veraval, Gir Somnath";
\* the product collection stays as it was.
C7_InquiryDefaults ==
  [][(/\ nreq' = nreq + 1
      /\ last'.op = "create_inquiry"
      /\ OnlyNamePhone(last'.req)
      /\ db = "connected" /\ reachable)
       => (/\ last'.status = 201
           /\ Len(inquiry') = Len(inquiry) + 1
           /\ SubSeq(inquiry', 1, Len(inquiry)) = inquiry
           /\ inquiry'[Len(inquiry')].preferred_contact = "whatsapp"
           /\ inquiry'[Len(inquiry')].city = Some("Veraval, Gir Somnath")
           /\ product' = product)]_vars

C7_Witness ==
  /\ last.op = "create_inquiry" /\ last.status = 201
  /\ OnlyNamePhone(last.req)
  /\ Len(inquiry) >= 1
  /\ inquiry[Len(inquiry)].preferred_contact = "whatsapp"
  /\ inquiry[Len(inquiry)].name = Val(last.req.name)

\* C8: a POST /api/products whose name is the empty string is answered 422
\* (500 when the store handle is absent or the store does not answer), and
\* no product with an empty name is stored through the API.
C8_EmptyNameRejected ==
  /\ (last.op = "add_product" /\ last.req.name = Some("") /\ last.status # 500)
       => last.status = 422
  /\ \A P \in posted : P.name # ""

AllStoredValid ==
  \A i \in 1..Len(product) :
    product[i].brand \in BrandLiteral /\ product[i].type \in TypeLiteral

Unlisted(o, allowed) == IsSome(o) /\ Val(o) \notin allowed

\* C9 (amended): a listing whose brand (or type) parameter is a non-empty
\* value outside the enumeration returns no items when every stored product
\* is schema-valid.
C9_UnknownNonEmptyFilterListsNothing ==
  (/\ IsList(last)
   /\ AllStoredValid
   /\ \/ Unlisted(last.req.brand, BrandLiteral) /\ Val(last.req.brand) # ""
      \/ Unlisted(last.req.type, TypeLiteral) /\ Val(last.req.type) # "")
    => last.items = <<>>

C9_Witness ==
  /\ IsList(last)
  /\ last.req.brand = Some("Duracell")
  /\ last.req.type = None /\ last.req.q = None
  /\ Len(product) > 0
  /\ last.items = <<>>

\* C9 as stated: the same for every value outside the enumeration, the empty
\* string included.
C9_UnknownFilterListsNothing ==
  (/\ IsList(last)
   /\ AllStoredValid
   /\ \/ Unlisted(last.req.brand, BrandLiteral)
      \/ Unlisted(last.req.type, TypeLiteral))
    => last.items = <<>>

Copies(rec) == Cardinality({j \in 1..Len(product) : PopId(product[j]) = rec})

\* C10: when every process has finished a seed run that counted zero
\* products and raised nothing, the collection holds exactly one copy of
\* each of the six samples.
C10_SeededOnce ==
  (\A p \in Procs : pc[p] = "done" /\ seen[p] = 0 /\ ~raised[p])
    => /\ Len(product) = Len(samples)
       /\ \A i \in 1..Len(samples) : Copies(samples[i]) = 1
====
